---- MODULE Spec2Model ----
(***************************************************************************)
(* Model of packs/pack03_os_edge/aviation/rtos_partition/template.c:       *)
(* main creates one task, SafetyTask, and starts the RTOS scheduler;       *)
(* SafetyTask loops forever around vTaskDelay(pdMS_TO_TICKS(1000)).        *)
(* The RTOS kernel (dispatching, the tick interrupt) and the producer of   *)
(* commands are collaborators outside the file; they are modelled from the *)
(* specification's description of them.                                    *)
(***************************************************************************)
EXTENDS Naturals, Sequences, FiniteSets

\* ---------------------------------------------------------------- bounds
\* configTICK_RATE_HZ comes from FreeRTOSConfig.h, which the file does not set.
TickRateHz == 3
\* Capacity of the bounded command queue.
MaxQueue == 3
\* Number of distinct command opcodes the producer may send.
MaxOpcode == 1

\* ------------------------------------------------------ program constants
\* vTaskDelay(pdMS_TO_TICKS(1000))
DelayMs == 1000
\* xTaskCreate(SafetyTask, "SafetyTask", 1024, NULL, 5, NULL)
StackDepth == 1024
SafetyPriority == 5

VARIABLES
    mainPc,            \* main's position: "create", "start", "scheduler", "spin", "returned"
    createResult,      \* what xTaskCreate returned ("none" before the call); main drops it
    createCalls,       \* number of calls of xTaskCreate so far
    startCalls,        \* number of calls of vTaskStartScheduler so far
    tasks,             \* the application tasks the kernel holds (their creation parameters)
    schedulerRunning,  \* the scheduler has been started
    taskState,         \* SafetyTask: "None", "Ready", "Running", "Blocked", "Deleted"
    taskPc,            \* SafetyTask's position: "delay" (line 13) or "returned" (line 15)
    delayLeft,         \* ticks left until the kernel wakes SafetyTask
    blockedTicks,      \* ticks counted since SafetyTask last called vTaskDelay
    queue,             \* the command queue (filled by the producer)
    executed,          \* commands SafetyTask has acted on, in order
    rejectLog          \* commands SafetyTask has discarded and logged, in order

vars == << mainPc, createResult, createCalls, startCalls, tasks, schedulerRunning,
           taskState, taskPc, delayLeft, blockedTicks, queue, executed, rejectLog >>

mainVars == << mainPc, createResult, createCalls, startCalls >>
commandVars == << queue, executed, rejectLog >>
schedVars == << taskState, taskPc, delayLeft, blockedTicks >>

Commands == [opcode : 1..MaxOpcode, signed : BOOLEAN]

\* pdMS_TO_TICKS(xTimeInMs) = (xTimeInMs * configTICK_RATE_HZ) / 1000
pdMS_TO_TICKS(xTimeInMs) == (xTimeInMs * TickRateHz) \div 1000

\* The task control block xTaskCreate(SafetyTask, "SafetyTask", 1024, NULL, 5, NULL) makes.
SafetyTCB ==
    [ pxTaskCode |-> "SafetyTask", pcName |-> "SafetyTask", usStackDepth |-> StackDepth,
      pvParameters |-> "NULL", uxPriority |-> SafetyPriority, pxCreatedTask |-> "NULL" ]

Init ==
    /\ mainPc = "create"
    /\ createResult = "none"
    /\ createCalls = 0
    /\ startCalls = 0
    /\ tasks = {}
    /\ schedulerRunning = FALSE
    /\ taskState = "None"
    /\ taskPc = "delay"
    /\ delayLeft = 0
    /\ blockedTicks = 0
    /\ queue = << >>
    /\ executed = << >>
    /\ rejectLog = << >>

\* ------------------------------------------------------------------ main

\* Mutant: main calls xTaskCreate in a loop (it does not move on to line 19).
main_xTaskCreate_Repeated ==
    /\ mainPc = "create"
    /\ createCalls < 3
    /\ createCalls' = createCalls + 1
    /\ tasks' = tasks \cup {SafetyTCB}
    /\ taskState' = "Ready"
    /\ createResult' = "pdPASS"
    /\ mainPc' = IF createCalls' < 2 THEN "create" ELSE "start"
    /\ UNCHANGED << startCalls, schedulerRunning, taskPc, delayLeft, blockedTicks,
                    commandVars >>

\* Mutant: the task is created with priority 4.
main_xTaskCreate_WrongPriority ==
    /\ mainPc = "create"
    /\ createCalls' = createCalls + 1
    /\ tasks' = tasks \cup {[SafetyTCB EXCEPT !.uxPriority = 4]}
    /\ taskState' = "Ready"
    /\ createResult' = "pdPASS"
    /\ mainPc' = "start"
    /\ UNCHANGED << startCalls, schedulerRunning, taskPc, delayLeft, blockedTicks,
                    commandVars >>

\* Mutant: main checks xTaskCreate's result and halts instead of starting the scheduler.
main_xTaskCreate_Checked ==
    /\ mainPc = "create"
    /\ createCalls' = createCalls + 1
    /\ \E ok \in BOOLEAN :
         IF ok
         THEN /\ tasks' = tasks \cup {SafetyTCB}
              /\ taskState' = "Ready"
              /\ createResult' = "pdPASS"
              /\ mainPc' = "start"
         ELSE /\ createResult' = "errCOULD_NOT_ALLOCATE_REQUIRED_MEMORY"
              /\ mainPc' = "spin"
              /\ UNCHANGED << tasks, taskState >>
    /\ UNCHANGED << startCalls, schedulerRunning, taskPc, delayLeft, blockedTicks,
                    commandVars >>

\* Line 18: xTaskCreate(SafetyTask, "SafetyTask", 1024, NULL, 5, NULL); the kernel either
\* allocates the task (pdPASS: the task is Ready) or cannot; main drops the result and
\* goes on to line 19 either way.
main_xTaskCreate ==
    /\ mainPc = "create"
    /\ createCalls' = createCalls + 1
    /\ \E ok \in BOOLEAN :
         IF ok
         THEN /\ tasks' = tasks \cup {SafetyTCB}
              /\ taskState' = "Ready"
              /\ createResult' = "pdPASS"
         ELSE /\ createResult' = "errCOULD_NOT_ALLOCATE_REQUIRED_MEMORY"
              /\ UNCHANGED << tasks, taskState >>
    /\ mainPc' = "start"
    /\ UNCHANGED << startCalls, schedulerRunning, taskPc, delayLeft, blockedTicks,
                    commandVars >>

\* Line 19: vTaskStartScheduler(); when the kernel can start, the call does not return
\* and the scheduler runs the tasks; when it cannot, the call returns to line 20.
main_vTaskStartScheduler ==
    /\ mainPc = "start"
    /\ startCalls' = startCalls + 1
    /\ \E ok \in BOOLEAN :
         IF ok
         THEN /\ schedulerRunning' = TRUE
              /\ mainPc' = "scheduler"
         ELSE /\ mainPc' = "spin"
              /\ UNCHANGED schedulerRunning
    /\ UNCHANGED << createResult, createCalls, tasks, schedVars, commandVars >>

\* Mutant: the loop of line 20 is left, and main reaches return 0.
main_spin_Leaves ==
    /\ mainPc = "spin"
    /\ mainPc' = "returned"
    /\ UNCHANGED << createResult, createCalls, startCalls, tasks, schedulerRunning,
                    schedVars, commandVars >>

\* Line 20: while (1) {} ; one turn of the empty loop changes nothing, and line 21
\* (return 0) has no way in.
main_spin ==
    /\ mainPc = "spin"
    /\ UNCHANGED vars

\* ------------------------------------------------------------ SafetyTask

\* Mutant: the loop body takes the head of the queue and acts on it unchecked.
SafetyTask_vTaskDelay_Executes ==
    /\ taskState = "Running"
    /\ taskPc = "delay"
    /\ IF queue # << >>
       THEN /\ executed' = Append(executed, Head(queue))
            /\ queue' = Tail(queue)
       ELSE UNCHANGED << queue, executed >>
    /\ delayLeft' = pdMS_TO_TICKS(DelayMs)
    /\ blockedTicks' = 0
    /\ taskState' = IF delayLeft' > 0 THEN "Blocked" ELSE "Ready"
    /\ UNCHANGED << mainVars, tasks, schedulerRunning, taskPc, rejectLog >>

\* Mutant: the loop body drains one command from the queue into the log.
SafetyTask_vTaskDelay_Drains ==
    /\ taskState = "Running"
    /\ taskPc = "delay"
    /\ IF queue # << >>
       THEN /\ rejectLog' = Append(rejectLog, Head(queue))
            /\ queue' = Tail(queue)
       ELSE UNCHANGED << queue, rejectLog >>
    /\ delayLeft' = pdMS_TO_TICKS(DelayMs)
    /\ blockedTicks' = 0
    /\ taskState' = IF delayLeft' > 0 THEN "Blocked" ELSE "Ready"
    /\ UNCHANGED << mainVars, tasks, schedulerRunning, taskPc, executed >>

\* Mutant: the delay is one tick short.
SafetyTask_vTaskDelay_Short ==
    /\ taskState = "Running"
    /\ taskPc = "delay"
    /\ delayLeft' = pdMS_TO_TICKS(DelayMs) - 1
    /\ blockedTicks' = 0
    /\ taskState' = IF delayLeft' > 0 THEN "Blocked" ELSE "Ready"
    /\ UNCHANGED << mainVars, tasks, schedulerRunning, taskPc, commandVars >>

\* Mutant: the loop is left after the delay call, and the task function returns.
SafetyTask_vTaskDelay_Returns ==
    /\ taskState = "Running"
    /\ taskPc = "delay"
    /\ taskPc' = "returned"
    /\ taskState' = "Deleted"
    /\ UNCHANGED << mainVars, tasks, schedulerRunning, delayLeft, blockedTicks,
                    commandVars >>

\* Mutant: the task blocks with no timeout (a delay that never expires).
SafetyTask_vTaskDelay_Forever ==
    /\ taskState = "Running"
    /\ taskPc = "delay"
    /\ delayLeft' = 0
    /\ blockedTicks' = 0
    /\ taskState' = "Blocked"
    /\ UNCHANGED << mainVars, tasks, schedulerRunning, taskPc, commandVars >>

\* Lines 11-14: one iteration of for (;;) { vTaskDelay(pdMS_TO_TICKS(1000)); }.
\* The body is the delay call alone (line 12 is a comment): the calling task leaves
\* the CPU and is Blocked for that many ticks (a delay of 0 ticks only yields), and
\* the back edge of the loop returns to line 13.
SafetyTask_vTaskDelay ==
    /\ taskState = "Running"
    /\ taskPc = "delay"
    /\ delayLeft' = pdMS_TO_TICKS(DelayMs)
    /\ blockedTicks' = 0
    /\ taskState' = IF delayLeft' > 0 THEN "Blocked" ELSE "Ready"
    /\ UNCHANGED << mainVars, tasks, schedulerRunning, taskPc, commandVars >>

\* ------------------------------------------------- collaborators (kernel)

\* The scheduler gives the CPU to the Ready task of highest priority; SafetyTask is
\* the only application task, so it runs as soon as it is Ready.
Dispatch ==
    /\ schedulerRunning
    /\ taskState = "Ready"
    /\ taskState' = "Running"
    /\ UNCHANGED << mainVars, tasks, schedulerRunning, taskPc, delayLeft, blockedTicks,
                    commandVars >>

\* The tick interrupt: a delayed task's remaining ticks go down by one, and the task
\* becomes Ready when none is left.
Tick ==
    /\ schedulerRunning
    /\ taskState = "Blocked"
    /\ delayLeft > 0
    /\ delayLeft' = delayLeft - 1
    /\ blockedTicks' = blockedTicks + 1
    /\ taskState' = IF delayLeft' = 0 THEN "Ready" ELSE "Blocked"
    /\ UNCHANGED << mainVars, tasks, schedulerRunning, taskPc, commandVars >>

\* ---------------------------------------------- collaborators (producer)

\* A producer outside the file puts a command, signed or not, in the bounded queue.
Enqueue ==
    /\ Len(queue) < MaxQueue
    /\ \E c \in Commands : queue' = Append(queue, c)
    /\ UNCHANGED << mainVars, tasks, schedulerRunning, schedVars, executed, rejectLog >>

\* ------------------------------------------------------- specifications

Next ==
    \/ main_xTaskCreate
    \/ main_vTaskStartScheduler
    \/ main_spin
    \/ SafetyTask_vTaskDelay
    \/ Dispatch
    \/ Tick
    \/ Enqueue

Spec == Init /\ [][Next]_vars

\* The CPU keeps executing main and the Running task, the scheduler dispatches a
\* Ready task, and the tick keeps advancing. The producer owes nothing.
FairSpec ==
    /\ Spec
    /\ WF_vars(main_xTaskCreate)
    /\ WF_vars(main_vTaskStartScheduler)
    /\ WF_vars(SafetyTask_vTaskDelay)
    /\ WF_vars(Dispatch)
    /\ WF_vars(Tick)

\* ----------------------------------------------------------------- claims

\* The delay SafetyTask asks for, in ticks.
DelayTicks == pdMS_TO_TICKS(DelayMs)

\* C1: no command that entered the queue without a valid signature has been executed by
\* SafetyTask: every command in the record of executed commands is a signed one.
C1_NoUnsignedExecuted ==
    \A i \in 1..Len(executed) : executed[i].signed

\* An unsigned command waits in the queue while SafetyTask has finished an iteration and
\* is about to run the next one.
C1_Witness ==
    /\ taskState = "Running"
    /\ blockedTicks = DelayTicks
    /\ \E i \in 1..Len(queue) : ~queue[i].signed

\* C2: once the task exists and the scheduler runs, a command waiting in the queue is
\* eventually dequeued by SafetyTask and disposed of (executed, or discarded and logged).
C2_EveryCommandDisposed ==
    (queue # << >> /\ schedulerRunning /\ tasks # {})
        ~> (Len(executed) + Len(rejectLog) > 0)

\* C3: at most one application task exists, it is SafetyTask with priority 5 and stack
\* depth 1024, and no step after main's xTaskCreate call adds, removes or alters a task.
C3_SingleFixedTask ==
    /\ [](/\ Cardinality(tasks) <= 1
          /\ \A t \in tasks : /\ t.pxTaskCode = "SafetyTask"
                              /\ t.uxPriority = 5
                              /\ t.usStackDepth = 1024
          /\ (taskState # "None" <=> tasks # {}))
    /\ [][mainPc # "create" => tasks' = tasks]_vars

\* The task exists, unchanged, after main, the scheduler and the task itself have acted.
C3_Witness ==
    /\ tasks = {SafetyTCB}
    /\ taskState = "Blocked"
    /\ delayLeft < DelayTicks

\* C4: every step SafetyTask takes while Running puts it in the Blocked state with the
\* full delay of pdMS_TO_TICKS(1000) ticks ahead of it, it leaves the Blocked state only
\* when that many ticks have been counted, and it never stays Running for ever.
C4_FullDelayBetweenIterations ==
    /\ [][(taskState = "Running" /\ taskState' # "Running")
            => (taskState' = "Blocked" /\ delayLeft' = DelayTicks)]_vars
    /\ [][(taskState = "Blocked" /\ taskState' # "Blocked")
            => (taskState' = "Ready" /\ blockedTicks' = DelayTicks)]_vars
    /\ (taskState = "Running") ~> (taskState = "Blocked")

\* SafetyTask is Ready again after a whole delay has been counted.
C4_Witness ==
    /\ taskState = "Ready"
    /\ blockedTicks = DelayTicks
    /\ DelayTicks > 0

\* C5: once created, SafetyTask is Ready, Running or Blocked in vTaskDelay, and its
\* function has not finished.
C5_TaskNeverFinishes ==
    tasks # {} =>
        /\ taskState \in {"Ready", "Running", "Blocked"}
        /\ taskPc = "delay"
        /\ (taskState = "Blocked" => delayLeft > 0)

\* The task is inside its loop, one tick before the end of a delay.
C5_Witness ==
    /\ taskState = "Blocked"
    /\ delayLeft = 1
    /\ taskPc = "delay"

\* C6: when xTaskCreate has failed, main goes on to vTaskStartScheduler all the same (it
\* is about to call it, or has called it), and the system runs with no SafetyTask.
C6_CreateFailureIgnored ==
    createResult = "errCOULD_NOT_ALLOCATE_REQUIRED_MEMORY" =>
        /\ tasks = {}
        /\ taskState = "None"
        /\ mainPc \in {"start", "scheduler", "spin"}
        /\ (mainPc = "start" => ENABLED main_vTaskStartScheduler)
        /\ (mainPc # "start" => startCalls = 1)

\* The scheduler runs although the task could not be created.
C6_Witness ==
    /\ createResult = "errCOULD_NOT_ALLOCATE_REQUIRED_MEMORY"
    /\ schedulerRunning
    /\ tasks = {}

C8_StartupOrder ==
    /\ createCalls <= 1
    /\ startCalls <= 1
    /\ (startCalls = 1 => createCalls = 1)
    /\ (mainPc = "create" <=> createCalls = 0)
    /\ (mainPc \in {"scheduler", "spin"} <=> startCalls = 1)
    /\ (taskState \in {"Running", "Blocked"} => startCalls = 1 /\ schedulerRunning)

\* SafetyTask runs its first iteration after both calls.
C8_Witness ==
    /\ taskState = "Running"
    /\ blockedTicks = 0
    /\ createCalls = 1
    /\ startCalls = 1

\* C9: main never reaches its return statement: once in the loop of line 20 it stays
\* there.
C9_MainNeverReturns ==
    /\ [](mainPc # "returned")
    /\ [][mainPc = "spin" => mainPc' = "spin"]_vars

\* vTaskStartScheduler has returned and main is in the empty loop.
C9_Witness ==
    /\ mainPc = "spin"
    /\ startCalls = 1
    /\ ~schedulerRunning

\* C10: with a fair scheduler and an advancing tick, a Blocked SafetyTask becomes Ready,
\* a Ready one runs, and once the task exists and the scheduler runs the task is Running
\* infinitely often.
C10_RunsInfinitelyOften ==
    /\ (taskState = "Blocked") ~> (taskState = "Ready")
    /\ (taskState = "Ready" /\ schedulerRunning) ~> (taskState = "Running")
    /\ []((tasks # {} /\ schedulerRunning) => []<>(taskState = "Running"))

\* SafetyTask runs again after a delay has expired.
C10_Witness ==
    /\ schedulerRunning
    /\ taskState = "Running"
    /\ delayLeft = 0
    /\ blockedTicks > 0

====
